---- MODULE Spec2Model ----
(***************************************************************************)
(* A model of main.py, the Bangumi file renamer: the filename pattern and  *)
(* the rename plan of rename_files, the metadata client                    *)
(* fetch_bangumi_data, and the interactive session loop of main.           *)
(*                                                                         *)
(* Text is modelled character by character: a Python str is a sequence of  *)
(* one-character tokens.  ASCII characters stand for themselves; the CJK   *)
(* characters of the source are written by name:                           *)
(*   "di" U+7B2C  "hua" U+8BDD   (the episode marker  di <digits> hua)     *)
(*   "zheng" U+6B63 "pian" U+7247 (the "main feature" lead-in)             *)
(*   "zhen" U+771F "cai" U+5F69   (true colour)                            *)
(*   "gao" U+9AD8 "ma" U+7801 "lv" U+7387   (high bitrate)                 *)
(*   "huax" U+753B "zhi" U+8D28             (high picture quality)         *)
(*   "chao" U+8D85 "qing" U+6E05            (ultra high definition)        *)
(*   "bom" U+FEFF                                                          *)
(***************************************************************************)
EXTENDS Integers, Sequences, FiniteSets, TLC

\* ------------------------------------------------------------------ text

UpperChars == <<"A","B","C","D","E","F","G","H","I","J","K","L","M",
                "N","O","P","Q","R","S","T","U","V","W","X","Y","Z">>
LowerChars == <<"a","b","c","d","e","f","g","h","i","j","k","l","m",
                "n","o","p","q","r","s","t","u","v","w","x","y","z">>
DigitChars == <<"0","1","2","3","4","5","6","7","8","9">>

Range(f) == {f[i] : i \in DOMAIN f}

IsDigit(c) == c \in Range(DigitChars)
IsSpace(c) == c = " "
IsAlnum(c) == c \in Range(UpperChars) \cup Range(LowerChars) \cup Range(DigitChars)

\* str.lower() and str.upper(), one character
lower_char(c) ==
    IF c \in Range(UpperChars)
    THEN LowerChars[CHOOSE i \in DOMAIN UpperChars : UpperChars[i] = c]
    ELSE c
upper_char(c) ==
    IF c \in Range(LowerChars)
    THEN UpperChars[CHOOSE i \in DOMAIN LowerChars : LowerChars[i] = c]
    ELSE c

\* str.lower() and str.upper(): character by character (the text is split in
\* halves only to keep the recursion shallow)
RECURSIVE lower(_)
lower(s) ==
    IF s = <<>> THEN <<>>
    ELSE IF Len(s) = 1 THEN <<lower_char(s[1])>>
    ELSE lower(SubSeq(s, 1, Len(s) \div 2)) \o lower(SubSeq(s, Len(s) \div 2 + 1, Len(s)))
RECURSIVE upper(_)
upper(s) ==
    IF s = <<>> THEN <<>>
    ELSE IF Len(s) = 1 THEN <<upper_char(s[1])>>
    ELSE upper(SubSeq(s, 1, Len(s) \div 2)) \o upper(SubSeq(s, Len(s) \div 2 + 1, Len(s)))

\* s[a..b), 1-based, as Python's s[a-1:b-1]
Slice(s, a, b) == IF b <= a THEN <<>> ELSE SubSeq(s, a, b - 1)

\* str.strip(chars): drop the leading and trailing characters that are in cs
StripSet(s, cs) ==
    LET keep == {i \in DOMAIN s : s[i] \notin cs}
    IN  IF keep = {} THEN <<>>
        ELSE LET a == CHOOSE i \in keep : \A j \in keep : i <= j
                 b == CHOOSE i \in keep : \A j \in keep : j <= i
             IN  SubSeq(s, a, b)
strip(s) == StripSet(s, {" "})

\* int(): a run of decimal digits to its value
RECURSIVE int(_)
int(ds) ==
    IF ds = <<>> THEN 0
    ELSE 10 * int(SubSeq(ds, 1, Len(ds) - 1))
         + ((CHOOSE i \in DOMAIN DigitChars : DigitChars[i] = ds[Len(ds)]) - 1)

\* str() of a non-negative integer
RECURSIVE str(_)
str(n) ==
    IF n < 10 THEN <<DigitChars[n + 1]>>
    ELSE Append(str(n \div 10), DigitChars[(n % 10) + 1])

\* str.zfill(width)
RECURSIVE zfill(_, _)
zfill(s, width) == IF Len(s) >= width THEN s ELSE zfill(<<"0">> \o s, width)

\* separator.join(parts)
RECURSIVE join(_, _)
join(sep, ps) ==
    IF ps = <<>> THEN <<>>
    ELSE IF Len(ps) = 1 THEN ps[1]
    ELSE ps[1] \o sep \o join(sep, Tail(ps))

\* whether token tok occurs in s at position i
StartsWith(s, i, tok) ==
    /\ i + Len(tok) - 1 <= Len(s)
    /\ \A k \in 1..Len(tok) : s[i + k - 1] = tok[k]

\* "x in s" for strings: tok occurs somewhere in s
Contains(s, tok) == \E i \in 1..(Len(s) + 1) : StartsWith(s, i, tok)


\* ------------------------------------------------- the filename pattern
\* rename_files compiles one regular expression with re.IGNORECASE:
\*   .*(?:zheng pian\s*)?(?:di(\d+)hua|EP(\d+))(?:\s*(.*?))?
\*   (?:\.(AVC|HEVC|H\.264|H\.265))?(?:\.(HDR|SDR))?
\*   (?:\.(\d{3,4}P|4[Kk]|8[Kk])(?:\s*chao gao qing)?)?
\*   (?:\s*(zhen cai|Hi10P|gao ma lv|gao huax zhi))*\.([a-zA-Z0-9]+)$
\* It is matched here as the backtracking engine matches it: every
\* quantifier lists its alternatives in the engine's order of preference and
\* the first alternative whose continuation succeeds is taken.  The text is
\* lower-cased first (IGNORECASE) and the groups are spans of positions.

LeadIn       == <<"zheng", "pian">>
CodecTokens  == << <<"a","v","c">>, <<"h","e","v","c">>,
                   <<"h",".","2","6","4">>, <<"h",".","2","6","5">> >>
HdrTokens    == << <<"h","d","r">>, <<"s","d","r">> >>
UltraHD      == <<"chao", "gao", "qing">>
QualityWords == << <<"zhen","cai">>, <<"h","i","1","0","p">>,
                   <<"gao","ma","lv">>, <<"gao","huax","zhi">> >>
TrueColor    == <<"zhen", "cai">>

\* a group that did not take part in the match (Python: None)
NoSpan == [a |-> 0, b |-> 0]
Fail == [ok |-> FALSE, grp |-> 0, num |-> NoSpan, title |-> NoSpan,
         codec |-> NoSpan, hdr |-> NoSpan, res |-> NoSpan,
         extra |-> NoSpan, ext |-> NoSpan]

\* the length of the run of characters of a class, from position i
RECURSIVE SpaceRun(_, _)
SpaceRun(L, i) == IF i <= Len(L) /\ IsSpace(L[i]) THEN 1 + SpaceRun(L, i + 1) ELSE 0
RECURSIVE DigitRun(_, _)
DigitRun(L, i) == IF i <= Len(L) /\ IsDigit(L[i]) THEN 1 + DigitRun(L, i + 1) ELSE 0

\* Each part of the pattern is matched in two steps: the ways the part can
\* match at position i are listed in the engine's order of preference (each
\* with the position where the rest of the pattern goes on), and the first
\* way whose continuation succeeds is taken.
OrElse(r, other) == IF r.ok THEN r ELSE other
Way(pos, a, b) == [pos |-> pos, span |-> [a |-> a, b |-> b]]
Skip(pos) == [pos |-> pos, span |-> NoSpan]

\*  \.([a-zA-Z0-9]+)$
match_ext(L, i) ==
    IF /\ i + 1 <= Len(L)
       /\ L[i] = "."
       /\ \A k \in (i + 1)..Len(L) : IsAlnum(L[k])
    THEN [Fail EXCEPT !.ok = TRUE, !.ext = [a |-> i + 1, b |-> Len(L) + 1]]
    ELSE Fail

SetExtra(r, last) == IF r.ok THEN [r EXCEPT !.extra = last] ELSE r

\*  tokens[n], tokens[n+1], ... that stand at position i, as ways
RECURSIVE TokenWays(_, _, _, _)
TokenWays(L, i, tokens, n) ==
    IF n > Len(tokens) THEN <<>>
    ELSE (IF StartsWith(L, i, tokens[n])
          THEN << Way(i + Len(tokens[n]), i, i + Len(tokens[n])) >> ELSE <<>>)
         \o TokenWays(L, i, tokens, n + 1)

\*  \s*(zhen cai|Hi10P|gao ma lv|gao huax zhi)  at position i: k whitespace
\*  characters, k from the whole run down to none, then a word
RECURSIVE ExtraWays(_, _, _)
ExtraWays(L, i, k) ==
    IF k < 0 THEN <<>>
    ELSE TokenWays(L, i + k, QualityWords, 1) \o ExtraWays(L, i, k - 1)

\*  (?:\s*(zhen cai|Hi10P|gao ma lv|gao huax zhi))*  then the extension.
\*  last is the span group 7 holds so far (the most recent repetition); one
\*  more repetition is preferred to stopping.
RECURSIVE match_extras(_, _, _), extras_first(_, _, _, _)
extras_first(L, i, last, ways) ==
    IF ways = <<>>
    THEN SetExtra(match_ext(L, i), last)
    ELSE OrElse(match_extras(L, ways[1].pos, ways[1].span),
                extras_first(L, i, last, Tail(ways)))
match_extras(L, i, last) == extras_first(L, i, last, ExtraWays(L, i, SpaceRun(L, i)))

\*  \d{3,4}P|4[Kk]|8[Kk]  at position i: the ways, in the order the
\*  alternation tries them
ResolutionWays(L, i) ==
    LET d == DigitRun(L, i)
        digitsP(n) == IF d >= n /\ i + n <= Len(L) /\ L[i + n] = "p"
                      THEN << Way(i + n + 1, i, i + n + 1) >> ELSE <<>>
    IN  digitsP(4) \o digitsP(3)
        \o TokenWays(L, i, << <<"4","k">>, <<"8","k">> >>, 1)

\*  (?:\s*chao gao qing)?  at position e: with k whitespace characters, k
\*  from the whole run down to none, then without
RECURSIVE UltraHDWays(_, _, _)
UltraHDWays(L, e, k) ==
    IF k < 0 THEN << e >>
    ELSE (IF StartsWith(L, e + k, UltraHD) THEN << e + k + Len(UltraHD) >> ELSE <<>>)
         \o UltraHDWays(L, e, k - 1)

\*  \.(\d{3,4}P|4[Kk]|8[Kk])(?:\s*chao gao qing)?  at position i: every
\*  resolution token with every way the words after it can match
RECURSIVE ResolutionGroupWays(_, _, _)
ResolutionGroupWays(L, i, tokens) ==
    IF tokens = <<>> THEN <<>>
    ELSE LET ends == UltraHDWays(L, tokens[1].pos, SpaceRun(L, tokens[1].pos))
         IN  [j \in DOMAIN ends |-> [pos |-> ends[j], span |-> tokens[1].span]]
             \o ResolutionGroupWays(L, i, Tail(tokens))

\*  (?:\.(\d{3,4}P|4[Kk]|8[Kk])(?:\s*chao gao qing)?)?
RECURSIVE res_first(_, _)
res_first(L, ways) ==
    IF ways = <<>> THEN Fail
    ELSE OrElse([match_extras(L, ways[1].pos, NoSpan) EXCEPT !.res = ways[1].span],
                res_first(L, Tail(ways)))
match_res(L, i) ==
    res_first(L, (IF i <= Len(L) /\ L[i] = "."
                  THEN ResolutionGroupWays(L, i, ResolutionWays(L, i + 1))
                  ELSE <<>>)
                 \o << Skip(i) >>)

\*  (?:\.(HDR|SDR))?
RECURSIVE hdr_first(_, _)
hdr_first(L, ways) ==
    IF ways = <<>> THEN Fail
    ELSE OrElse([match_res(L, ways[1].pos) EXCEPT !.hdr = ways[1].span],
                hdr_first(L, Tail(ways)))
match_hdr(L, i) ==
    hdr_first(L, (IF i <= Len(L) /\ L[i] = "."
                  THEN TokenWays(L, i + 1, HdrTokens, 1) ELSE <<>>)
                 \o << Skip(i) >>)

\*  (?:\.(AVC|HEVC|H\.264|H\.265))?
RECURSIVE codec_first(_, _)
codec_first(L, ways) ==
    IF ways = <<>> THEN Fail
    ELSE OrElse([match_hdr(L, ways[1].pos) EXCEPT !.codec = ways[1].span],
                codec_first(L, Tail(ways)))
match_codec(L, i) ==
    codec_first(L, (IF i <= Len(L) /\ L[i] = "."
                    THEN TokenWays(L, i + 1, CodecTokens, 1) ELSE <<>>)
                   \o << Skip(i) >>)

\*  (.*?) then the rest: lazy, so the first end e of the title, from lo up
\*  to hi, at which the rest of the pattern matches (the range is searched
\*  lower half first, which is the same order); a is where the title
\*  starts, 0 for the group left out
RECURSIVE title_scan(_, _, _, _)
title_scan(L, a, lo, hi) ==
    IF lo > hi THEN Fail
    ELSE IF lo = hi
    THEN [match_codec(L, lo) EXCEPT !.title = IF a = 0 THEN NoSpan
                                              ELSE [a |-> a, b |-> lo]]
    ELSE OrElse(title_scan(L, a, lo, (lo + hi) \div 2),
                title_scan(L, a, ((lo + hi) \div 2) + 1, hi))

\*  (?:\s*(.*?))?  : the whitespace greedy (k from the whole run down to
\*  none), then the title; at last the group left out
RECURSIVE title_first(_, _, _)
title_first(L, i, k) ==
    IF k < 0 THEN title_scan(L, 0, i, i)
    ELSE OrElse(title_scan(L, i + k, i + k, Len(L) + 1), title_first(L, i, k - 1))
match_title(L, i) == title_first(L, i, SpaceRun(L, i))

\*  (?:di(\d+)hua|EP(\d+))  at position p: the ways, the first alternative
\*  first, the digits greedy (n digits, n from the whole run down to one);
\*  a way's span is the digits, its grp the group that holds them
RECURSIVE DigitWays(_, _, _, _)
DigitWays(L, a, n, grp) ==
    IF n < 1 THEN <<>>
    ELSE (IF grp = 2
          THEN << [pos |-> a + n, span |-> [a |-> a, b |-> a + n], grp |-> 2] >>
          ELSE IF a + n <= Len(L) /\ L[a + n] = "hua"
          THEN << [pos |-> a + n + 1, span |-> [a |-> a, b |-> a + n], grp |-> 1] >>
          ELSE <<>>)
         \o DigitWays(L, a, n - 1, grp)
MarkerWays(L, p) ==
    (IF p <= Len(L) /\ L[p] = "di"
     THEN DigitWays(L, p + 1, DigitRun(L, p + 1), 1) ELSE <<>>)
    \o (IF StartsWith(L, p, <<"e", "p">>)
        THEN DigitWays(L, p + 2, DigitRun(L, p + 2), 2) ELSE <<>>)

\*  (?:zheng pian\s*)?  at position p: the positions where the marker may
\*  start, the lead-in taken first (its whitespace greedy), then left out
LeadInWays(L, p) ==
    (IF StartsWith(L, p, LeadIn)
     THEN LET ws == SpaceRun(L, p + Len(LeadIn))
          IN  [j \in 1..(ws + 1) |-> p + Len(LeadIn) + ws - j + 1]
     ELSE <<>>)
    \o << p >>

RECURSIVE AllMarkerWays(_, _)
AllMarkerWays(L, starts) ==
    IF starts = <<>> THEN <<>>
    ELSE MarkerWays(L, starts[1]) \o AllMarkerWays(L, Tail(starts))

RECURSIVE marker_first(_, _)
marker_first(L, ways) ==
    IF ways = <<>> THEN Fail
    ELSE OrElse([match_title(L, ways[1].pos)
                    EXCEPT !.grp = ways[1].grp, !.num = ways[1].span],
                marker_first(L, Tail(ways)))

\*  .*  : greedy, so the longest lead, from hi down to lo, after which the
\*  rest of the pattern matches (the range is searched upper half first,
\*  which is the same order).  "." matches any character of the model's
\*  alphabet, which has no newline.
RECURSIVE lead_scan(_, _, _)
lead_scan(L, lo, hi) ==
    IF lo > hi THEN Fail
    ELSE IF lo = hi
    THEN marker_first(L, AllMarkerWays(L, LeadInWays(L, lo + 1)))
    ELSE OrElse(lead_scan(L, ((lo + hi) \div 2) + 1, hi),
                lead_scan(L, lo, (lo + hi) \div 2))

\* pattern.match(clean_name): IGNORECASE, so on the lower-cased text
match_lowered(L) == lead_scan(L, 0, Len(L))
pattern_match(clean_name) == match_lowered(lower(clean_name))

\* match.group(n) as text; "" for a group that did not take part
Group(s, span) == Slice(s, span.a, span.b)


\* ------------------------------------------------------ the rename plan
\* The body of the loop over os.listdir(directory) in rename_files, one
\* operator per local variable.  None and "" are both the empty sequence
\* where the code only tests truthiness; season None is 0 ("if season").

\* clean_name = filename.strip(BOM).strip()
clean_name(filename) == strip(StripSet(filename, {"bom"}))

\* original_num = int(match.group(1) or match.group(2))
original_num(s, m) == int(Group(s, m.num))

\* original_title = match.group(3).strip() if match.group(3) else ""
original_title(s, m) ==
    IF Group(s, m.title) # <<>> THEN strip(Group(s, m.title)) ELSE <<>>

\* episode_num = original_num + (start_offset - 1) if start_offset > 0 else original_num
episode_num(n, start_offset) ==
    IF start_offset > 0 THEN n + (start_offset - 1) ELSE n

\* dict.get(key, default)
dict_get(d, key, default) == IF key \in DOMAIN d THEN d[key] ELSE default

\* the key of the title lookup: episode_titles.get(original_num, ...)
title_key_shifted(original, shifted) == shifted
title_key(original, shifted) == original

\* final_title, as chosen from add_titles, use_bangumi and episode_titles
final_title(key, title, add_titles, use_bangumi, episode_titles) ==
    IF add_titles
    THEN IF use_bangumi /\ DOMAIN episode_titles # {}
         THEN dict_get(episode_titles, key, title)
         ELSE title
    ELSE <<>>

\* resolution_parts: the user's HDR resolution for a file with an HDR/SDR
\* token, else the detected resolution, 4K and 8K spelled out
resolution_parts(hdr_flag, resolution, hdr_resolution) ==
    IF hdr_flag # <<>> /\ hdr_resolution # <<>>
    THEN << hdr_resolution \o <<"P">> >>
    ELSE IF resolution # <<>>
    THEN LET r == upper(resolution)
         IN  << IF r = <<"4","K">> THEN <<"2","1","6","0","P">>
                ELSE IF r = <<"8","K">> THEN <<"4","3","2","0","P">>
                ELSE r >>
    ELSE <<>>

\* hdr_detected = bool(hdr_flag) or (extra_flags and TrueColor in extra_flags)
hdr_detected(hdr_flag, extra_flags) ==
    \/ hdr_flag # <<>>
    \/ (extra_flags # <<>> /\ Contains(extra_flags, TrueColor))

\* quality_parts: codec upper-cased, the resolution parts, the HDR marker
quality_parts(codec, res_parts, hdr) ==
    (IF codec # <<>> THEN << upper(codec) >> ELSE <<>>)
    \o res_parts
    \o (IF hdr THEN << <<"H","D","R">> >> ELSE <<>>)

\* quality_suffix = "." + ".".join(quality_parts) if quality_parts else ""
quality_suffix(qparts) ==
    IF qparts # <<>> THEN <<".">> \o join(<<".">>, qparts) ELSE <<>>

\* the season/episode designator: S<season>E<episode>, or E<episode>
designator_ep(season, ep) ==
    IF season # 0
    THEN <<"S">> \o zfill(str(season), 2) \o <<"E","P">> \o zfill(str(ep), 2)
    ELSE <<"E","P">> \o zfill(str(ep), 2)
designator(season, ep) ==
    IF season # 0
    THEN <<"S">> \o zfill(str(season), 2) \o <<"E">> \o zfill(str(ep), 2)
    ELSE <<"E">> \o zfill(str(ep), 2)

\* parts: [subgroup], prefix, the designator, the stripped title
name_parts(subgroup, prefix, season, ep, title) ==
    (IF subgroup # <<>> THEN << <<"[">> \o subgroup \o <<"]">> >> ELSE <<>>)
    \o (IF prefix # <<>> THEN << prefix >> ELSE <<>>)
    \o << designator(season, ep) >>
    \o (IF strip(title) # <<>> THEN << strip(title) >> ELSE <<>>)

\* One pass of the loop body for one directory entry under the parameters
\* P of the call: the match, the extracted fields and the proposed name.
\* The three operators follow the three parts of the body: the groups of
\* the match, the values computed from them, the name put together.
entry_named(n, t, codec, hdr_flag, resolution, extra, ext, ep, ft, hdr, qsuf, P) ==
    [matched |-> TRUE,
     original_num |-> n, original_title |-> t,
     codec |-> codec, hdr_flag |-> hdr_flag, resolution |-> resolution,
     extra_flags |-> extra, ext |-> ext,
     episode_num |-> ep, final_title |-> ft,
     hdr_detected |-> hdr, quality_suffix |-> qsuf,
     new_name |-> join(<<" ">>, name_parts(P.subgroup, P.prefix, P.season, ep, ft))
                  \o qsuf \o <<".">> \o ext]

entry_computed(n, t, codec, hdr_flag, resolution, extra, ext, ep, P) ==
    entry_named(n, t, codec, hdr_flag, resolution, extra, ext, ep,
                final_title(title_key(n, ep), t, P.add_titles, P.use_bangumi,
                            P.episode_titles),
                hdr_detected(hdr_flag, extra),
                quality_suffix(quality_parts(codec,
                    resolution_parts(hdr_flag, resolution, P.hdr_resolution),
                    hdr_detected(hdr_flag, extra))),
                P)

entry_matched(s, m, P) ==
    IF ~m.ok
    THEN [matched |-> FALSE]
    ELSE entry_computed(original_num(s, m), original_title(s, m),
                        Group(s, m.codec), Group(s, m.hdr), Group(s, m.res),
                        Group(s, m.extra), lower(Group(s, m.ext)),
                        episode_num(original_num(s, m), P.start_offset), P)

plan_entry(filename, P) ==
    entry_matched(clean_name(filename), pattern_match(clean_name(filename)), P)

\* ----------------------------------------------------- the episode map
\* fetch_bangumi_data builds episodes from the list the API returned.  An
\* episode is a record; an absent or null field is the empty sequence (a
\* number n is <<n>>, a text is its characters).

\* ep_name = ep.get("name_cn") or ep.get("name") or "di{ep_num}hua"
episode_name(ep, ep_num) ==
    IF ep.name_cn # <<>> THEN ep.name_cn
    ELSE IF ep.name # <<>> THEN ep.name
    ELSE <<"di">> \o str(ep_num) \o <<"hua">>

\* ep_num = ep.get("sort") or ep.get("ep"): a missing or zero sort gives ep
episode_number(ep) ==
    IF ep.sort # <<>> /\ ep.sort # <<0>> THEN ep.sort ELSE ep.ep

\* the loop over episodes_data: main-story episodes (type 0) with a number
RECURSIVE episodes_of(_)
episodes_of(episodes_data) ==
    IF episodes_data = <<>> THEN <<>>
    ELSE LET rest == episodes_of(SubSeq(episodes_data, 1, Len(episodes_data) - 1))
             ep   == episodes_data[Len(episodes_data)]
             num  == episode_number(ep)
         IN  IF ep.type = 0 /\ num # <<>>
             THEN [k \in (DOMAIN rest) \cup {num[1]} |->
                      IF k = num[1] THEN episode_name(ep, num[1]) ELSE rest[k]]
             ELSE rest


\* ------------------------------------------------------------- bounds
MaxEpisode == 2   \* episode numbers 1..MaxEpisode (and 12) occur in file names
MaxOffset  == 2   \* numbering offsets 0..MaxOffset (and 13) are entered
MaxExtras  == 2   \* a file name carries up to MaxExtras quality words

\* ------------------------------------------------------ input alphabet
\* File names are put together from the parts the pattern distinguishes.
\* shape records how a name was put together, for the properties that speak
\* of "a name of the shape ...".

EpisodeNumbers == (1..MaxEpisode) \cup {12}
Offsets        == (0..MaxOffset) \cup {13}

Sp == <<" ">>
Dot == <<".">>
Leads == { <<>>, LeadIn \o Sp }
PlainTitles == { <<"a">>, <<"b", " ", "c">>, <<"S","t","e","p","1">> }
Extensions  == { <<"m","p","4">>, <<"M","K","V">> }
CodecParts  == { <<>>, <<".","H","E","V","C">>, <<".","h",".","2","6","4">> }
HdrParts    == { <<>>, <<".","H","D","R">>, <<".","S","D","R">> }
ResParts    == { <<>>, <<".","1","0","8","0","P">>, <<".","4","K">> }
ExtraWords  == { TrueColor, <<"H","i","1","0","P">> }

RECURSIVE SeqsUpTo(_, _)
SeqsUpTo(S, n) ==
    IF n = 0 THEN { <<>> }
    ELSE LET shorter == SeqsUpTo(S, n - 1)
         IN  shorter \cup { Append(q, x) : q \in shorter, x \in S }

RECURSIVE SpacedWords(_)
SpacedWords(ws) == IF ws = <<>> THEN <<>> ELSE Sp \o ws[1] \o SpacedWords(Tail(ws))

DiMarker(n) == <<"di">> \o str(n) \o <<"hua">>
EpMarker(n) == <<"E","P">> \o zfill(str(n), 2)

NoShape == [kind |-> "none", n |-> 0, title |-> <<>>, ext |-> <<>>,
            hdr |-> <<>>, extras |-> <<>>, text |-> <<>>]

\* "di<N>hua <title>.<ext>" and "di<N>hua.<ext>", optionally after a lead-in
TitledShapes ==
    { [NoShape EXCEPT !.kind = "titled", !.n = n, !.title = t, !.ext = x,
                      !.text = l \o DiMarker(n) \o Sp \o t \o Dot \o x]
        : l \in Leads, n \in EpisodeNumbers, t \in PlainTitles, x \in Extensions }
UntitledShapes ==
    { [NoShape EXCEPT !.kind = "untitled", !.n = n, !.ext = x,
                      !.text = l \o DiMarker(n) \o Dot \o x]
        : l \in Leads, n \in EpisodeNumbers, x \in Extensions }

\* a marker, an optional title, then codec, HDR/SDR token, resolution and
\* quality words in the order the pattern expects them
QualityShapes ==
    { [NoShape EXCEPT !.kind = "quality", !.n = 1, !.title = t,
                      !.ext = <<"m","k","v">>, !.hdr = h, !.extras = e,
                      !.text = m \o t \o c \o h \o r \o SpacedWords(e) \o <<".","m","k","v">>]
        : m \in {DiMarker(1), EpMarker(1)}, t \in {<<>>, <<" ","a">>},
          c \in CodecParts, h \in HdrParts, r \in ResParts,
          e \in SeqsUpTo(ExtraWords, MaxExtras) }

\* other directory entries: names that do not match, names already renamed,
\* names whose title carries tokens of the pattern
OddNames ==
    { <<"r","e","a","d","m","e",".","t","x","t">>,
      <<"di","1","hua">>,
      <<"S","0","1","E","0","1"," ","a",".","m","p","4">>,
      <<"bom"," ","di","1","hua"," ","a",".","m","p","4"," ">>,
      <<"di","1","hua"," ","zhen","cai",".","m","p","4">>,
      <<"di","1","hua"," ","a",".","H","E","V","C",".","m","p","4">>,
      <<"di","1","hua"," ","di","2","hua",".","m","p","4">>,
      <<"E","P","1","E","P","2",".","m","p","4">>,
      <<"di","2","hua"," ","E","P",".","m","p","4">>,
      <<"di","1","hua"," "," ","a"," ",".","m","p","4">> }
OddShapes == { [NoShape EXCEPT !.kind = "odd", !.text = t] : t \in OddNames }

\* what the metadata client may have been given as the episode list
Ep(t, sort, name_cn, name) ==
    [type |-> t, sort |-> sort, ep |-> <<>>, name_cn |-> name_cn, name |-> name]
EpisodeLists ==
    { <<>>,
      << Ep(0, <<1>>, <<"B","e","g","i","n">>, <<>>),
         Ep(0, <<2>>, <<>>, <<"R","e","u","n","i","o","n">>) >>,
      << Ep(0, <<1>>, <<>>, <<>>), Ep(1, <<2>>, <<"S","P">>, <<>>) >> }
EpisodeMaps == { episodes_of(d) : d \in EpisodeLists }

\* the parameters of a call of rename_files
BaseParams ==
    [subgroup |-> <<>>, prefix |-> <<"S","h","o","w">>, season |-> 1,
     episode_titles |-> <<>>, use_bangumi |-> FALSE, start_offset |-> 0,
     add_titles |-> TRUE, hdr_resolution |-> <<>>]
TitleParams ==
    { [BaseParams EXCEPT !.start_offset = k, !.use_bangumi = u, !.add_titles = a,
                         !.episode_titles = m, !.season = sn]
        : k \in Offsets, u \in BOOLEAN, a \in BOOLEAN, m \in EpisodeMaps,
          sn \in {0, 1} }
NameParams ==
    { [BaseParams EXCEPT !.subgroup = g, !.prefix = x, !.use_bangumi = TRUE,
                         !.episode_titles = m]
        : g \in {<<>>, <<"V","C","B">>},
          x \in {<<>>, <<"S","h","o","w">>, <<"E","P","1">>},
          m \in EpisodeMaps }
HdrParams ==
    { [BaseParams EXCEPT !.hdr_resolution = r] : r \in {<<>>, <<"1","0","8","0">>} }

\* ------------------------------------------------------------- state
VARIABLES
    pl_pc,      \* the planner applied to one name: "start", "planned", "replanned"
    pl_shape,   \* how the file name was put together (pl_shape.text is the name)
    pl_params,  \* the parameters of the call
    pl_entry,   \* the loop body's result for the name
    pl_again    \* the loop body's result for the name it proposed

planVars == <<pl_pc, pl_shape, pl_params, pl_entry, pl_again>>

NoEntry == [matched |-> FALSE]

PlanInit ==
    /\ pl_pc = "start"
    /\ \/ pl_shape \in TitledShapes \cup UntitledShapes
          /\ pl_params \in TitleParams \cup NameParams
       \/ pl_shape \in QualityShapes /\ pl_params \in HdrParams
       \/ pl_shape \in OddShapes /\ pl_params \in NameParams
    /\ pl_entry = NoEntry
    /\ pl_again = NoEntry

\* the loop body of rename_files for the directory entry pl_shape.text
Plan ==
    /\ pl_pc = "start"
    /\ pl_entry' = plan_entry(pl_shape.text, pl_params)
    /\ pl_pc' = "planned"
    /\ UNCHANGED <<pl_shape, pl_params, pl_again>>

\* the same loop body, same parameters, for the name it proposed (a later
\* pass over the directory after the rename)
Replan ==
    /\ pl_pc = "planned"
    /\ pl_entry.matched
    /\ pl_again' = plan_entry(pl_entry.new_name, pl_params)
    /\ pl_pc' = "replanned"
    /\ UNCHANGED <<pl_shape, pl_params, pl_entry>>


\* --------------------------------------------------------- rename_files
\* rename_files(directory, subgroup, prefix, season, episode_titles,
\* use_bangumi, start_offset, add_titles, hdr_resolution) as a sequence of
\* steps: the scan of os.listdir(directory), the preview, the confirmation
\* prompt, the renames.  rf_renames is the log of the os.rename calls made.

MaxFiles == 2   \* a directory holds up to MaxFiles entries

VARIABLES
    rf_pc,        \* "idle", "scan", "confirm", "rename", "returned", "interrupted", "failed"
    rf_listing,   \* os.listdir(directory)
    rf_params,    \* the other arguments of the call
    rf_idx,       \* the entry the scan loop is at
    rf_preview,   \* preview: the plan, pairs <<old, new>>
    rf_skipped,   \* the names reported as skipped
    rf_shown,     \* the pairs printed as the rename preview
    rf_answered,  \* the confirmation prompt has been answered
    rf_confirm,   \* confirm: the answer, stripped and lower-cased
    rf_ridx,      \* the plan entry the rename loop is at
    rf_renames,   \* the os.rename calls made: [old, new, ok]
    rf_result     \* the value returned: "none" until the call returns

renameVars == <<rf_pc, rf_listing, rf_params, rf_idx, rf_preview, rf_skipped,
                rf_shown, rf_answered, rf_confirm, rf_ridx, rf_renames, rf_result>>

\* a call of rename_files begins (the state at line 168)
RenameEntry(listing, P) ==
    /\ rf_pc' = "scan"
    /\ rf_listing' = listing
    /\ rf_params' = P
    /\ rf_idx' = 1
    /\ rf_preview' = <<>>
    /\ rf_skipped' = <<>>
    /\ rf_shown' = <<>>
    /\ rf_answered' = FALSE
    /\ rf_confirm' = <<>>
    /\ rf_ridx' = 1
    /\ rf_renames' = <<>>
    /\ rf_result' = "none"

RenameIdle ==
    /\ rf_pc = "idle"
    /\ rf_listing = <<>>
    /\ rf_params = BaseParams
    /\ rf_idx = 1
    /\ rf_preview = <<>>
    /\ rf_skipped = <<>>
    /\ rf_shown = <<>>
    /\ rf_answered = FALSE
    /\ rf_confirm = <<>>
    /\ rf_ridx = 1
    /\ rf_renames = <<>>
    /\ rf_result = "none"

\* one pass of the loop body: a name that does not match is reported and
\* skipped ("continue"), a name that matches is appended to preview with
\* the name proposed for it
scan_entry_clean(filename, P, preview, skipped) ==
    LET e == plan_entry(filename, P)
    IN  IF ~e.matched
        THEN [preview |-> preview, skipped |-> Append(skipped, filename)]
        ELSE [preview |-> Append(preview, <<clean_name(filename), e.new_name>>),
              skipped |-> skipped]
scan_entry(filename, P, preview, skipped) ==
    LET e == plan_entry(filename, P)
    IN  IF ~e.matched
        THEN [preview |-> preview, skipped |-> Append(skipped, filename)]
        ELSE [preview |-> Append(preview, <<filename, e.new_name>>),
              skipped |-> skipped]

\* confirm not in ('', 'y', 'yes') cancels
always_affirmative(confirm) == TRUE
is_affirmative(confirm) == confirm \in { <<>>, <<"y">>, <<"y","e","s">> }

\* the rename loop after the os.rename of entry i: the except clause prints
\* and the loop goes on with the next entry
break_on_failure(i, ok, n) == IF ok THEN i + 1 ELSE n + 1
after_rename(i, ok, n) == i + 1

\* for filename in os.listdir(directory): ... (lines 170-233)
RfScan ==
    /\ rf_pc = "scan"
    /\ rf_idx <= Len(rf_listing)
    /\ LET r == scan_entry(rf_listing[rf_idx], rf_params, rf_preview, rf_skipped)
       IN  /\ rf_preview' = r.preview
           /\ rf_skipped' = r.skipped
    /\ rf_idx' = rf_idx + 1
    /\ UNCHANGED <<rf_pc, rf_listing, rf_params, rf_shown, rf_answered,
                   rf_confirm, rf_ridx, rf_renames, rf_result>>

\* if not preview: return False (lines 235-237)
RfEmptyPlan ==
    /\ rf_pc = "scan"
    /\ rf_idx > Len(rf_listing)
    /\ rf_preview = <<>>
    /\ rf_pc' = "returned"
    /\ rf_result' = "False"
    /\ UNCHANGED <<rf_listing, rf_params, rf_idx, rf_preview, rf_skipped, rf_shown,
                   rf_answered, rf_confirm, rf_ridx, rf_renames>>

\* the preview is printed, every pair of it, and the prompt is shown
\* (lines 239-243, up to the call of input)
RfShowPreview ==
    /\ rf_pc = "scan"
    /\ rf_idx > Len(rf_listing)
    /\ rf_preview # <<>>
    /\ rf_shown' = rf_preview
    /\ rf_pc' = "confirm"
    /\ UNCHANGED <<rf_listing, rf_params, rf_idx, rf_preview, rf_skipped,
                   rf_answered, rf_confirm, rf_ridx, rf_renames, rf_result>>

\* what may be typed at a yes/no prompt
Answers == { <<>>, <<"y">>, <<"Y">>, <<" ","Y","e","s"," ">>, <<"n">>, <<"N","O">>,
             <<"y","e","p">> }

\* confirm = input(...).strip().lower(); anything but '', 'y', 'yes' cancels
\* (lines 243-246)
RfAnswer ==
    /\ rf_pc = "confirm"
    /\ \E answer \in Answers :
          /\ rf_confirm' = lower(strip(answer))
          /\ rf_answered' = TRUE
          /\ IF is_affirmative(lower(strip(answer)))
             THEN /\ rf_pc' = "rename"
                  /\ rf_result' = rf_result
             ELSE /\ rf_pc' = "returned"
                  /\ rf_result' = "False"
    /\ UNCHANGED <<rf_listing, rf_params, rf_idx, rf_preview, rf_skipped, rf_shown,
                   rf_ridx, rf_renames>>

\* os.rename of plan entry rf_ridx, which succeeds or raises; after the
\* last entry the function returns True (lines 248-257)
RfRenameStep(ok) ==
    /\ rf_pc = "rename"
    /\ rf_ridx <= Len(rf_preview)
    /\ rf_renames' = Append(rf_renames, [old |-> rf_preview[rf_ridx][1],
                                         new |-> rf_preview[rf_ridx][2],
                                         ok  |-> ok])
    /\ LET next == after_rename(rf_ridx, ok, Len(rf_preview))
       IN  /\ rf_ridx' = next
           /\ IF next > Len(rf_preview)
              THEN rf_pc' = "returned" /\ rf_result' = "True"
              ELSE rf_pc' = "rename" /\ rf_result' = rf_result
    /\ UNCHANGED <<rf_listing, rf_params, rf_idx, rf_preview, rf_skipped, rf_shown,
                   rf_answered, rf_confirm>>

RfRenamed == RfRenameStep(TRUE)
RfRenameFailed == RfRenameStep(FALSE)

\* a KeyboardInterrupt while the function scans, waits at the prompt or
\* renames: nothing in rename_files catches it (the except clause of the
\* rename loop catches Exception only), the call is left by it
RfInterrupt ==
    /\ rf_pc \in {"scan", "confirm", "rename"}
    /\ rf_pc' = "interrupted"
    /\ UNCHANGED <<rf_listing, rf_params, rf_idx, rf_preview, rf_skipped, rf_shown,
                   rf_answered, rf_confirm, rf_ridx, rf_renames, rf_result>>

\* an Exception outside the try of the rename loop: os.listdir raises
\* (line 170, before the first entry) or input raises EOFError (line 243);
\* the call is left by it
RfError ==
    /\ \/ rf_pc = "scan" /\ rf_idx = 1
       \/ rf_pc = "confirm"
    /\ rf_pc' = "failed"
    /\ UNCHANGED <<rf_listing, rf_params, rf_idx, rf_preview, rf_skipped, rf_shown,
                   rf_answered, rf_confirm, rf_ridx, rf_renames, rf_result>>

\* directory listings: distinct names, in any order
DirNames ==
    { <<"di","1","hua"," ","a",".","m","p","4">>,
      <<"bom"," ","di","2","hua",".","M","P","4">>,
      <<"E","P","1",".","H","E","V","C",".","m","k","v">>,
      <<"r","e","a","d","m","e",".","t","x","t">>,
      <<"S","0","1","E","0","1"," ","a",".","m","p","4">> }
DirListings ==
    { l \in SeqsUpTo(DirNames, MaxFiles) :
        \A i, j \in DOMAIN l : i # j => l[i] # l[j] }
CallParams ==
    { BaseParams,
      [BaseParams EXCEPT !.subgroup = <<"V","C","B">>, !.start_offset = 13,
                         !.season = 0] }

RenameCallInit ==
    /\ rf_pc = "scan"
    /\ rf_listing \in DirListings
    /\ rf_params \in CallParams
    /\ rf_idx = 1
    /\ rf_preview = <<>>
    /\ rf_skipped = <<>>
    /\ rf_shown = <<>>
    /\ rf_answered = FALSE
    /\ rf_confirm = <<>>
    /\ rf_ridx = 1
    /\ rf_renames = <<>>
    /\ rf_result = "none"

\* ---------------------------------------------------- fetch_bangumi_data
\* fetch_bangumi_data(anime_id, access_token) as a sequence of requests:
\* the subject, its episodes, the legacy episode list when the first list
\* is empty, the tags.  Every step runs inside the function's
\* "try: ... except Exception", which returns (None, {}).
\*
\* A response is what requests.get gave: raised is a transport exception
\* (no response at all), status_code the status, decodable whether
\* response.json() can decode the body, json the decoded value.

\* Python's None where a record is expected, and the JSON value null; a
\* JSON object is a record of its members, a JSON array [list |-> ...]
None == [none |-> TRUE, name_cn |-> <<>>, name |-> <<>>, tags |-> <<>>]
JsonNull == [null |-> TRUE]

TransportError == [raised |-> TRUE, status_code |-> 0, decodable |-> FALSE,
                   json |-> JsonNull]
Response(status, decodable, json) ==
    [raised |-> FALSE, status_code |-> status, decodable |-> decodable, json |-> json]

\* the statuses a server may answer with: the success the client expects,
\* another 2xx, a 3xx that is not followed, a client or server error
Statuses == {200, 204, 304, 404}

ResponsesWith(bodies) ==
    {TransportError}
    \cup { Response(st, FALSE, JsonNull) : st \in Statuses }
    \cup { Response(st, TRUE, v) : st \in Statuses, v \in bodies }

\* the subject as the API describes it
Subject(name_cn, name) ==
    [none |-> FALSE, name_cn |-> name_cn, name |-> name, tags |-> <<>>]
SubjectBodies ==
    { JsonNull,
      Subject(<<>>, <<>>),
      Subject(<<>>, <<"S","h","o","u">>),
      Subject(<<"S","h","o","w">>, <<"S","h","o","u">>) }
EpisodesBodies == {JsonNull} \cup { [data |-> l] : l \in EpisodeLists }
LegacyBodies   == {JsonNull} \cup { [list |-> l] : l \in EpisodeLists }
TagsBodies     == { JsonNull, [data |-> <<>>], [data |-> << <<"t","a","g">> >>] }

SubjectResponses  == ResponsesWith(SubjectBodies)
EpisodesResponses == ResponsesWith(EpisodesBodies)
LegacyResponses   == ResponsesWith(LegacyBodies)
TagsResponses     == ResponsesWith(TagsBodies)

\* response.raise_for_status(): raises HTTPError for a 4xx or 5xx status
never_raises(status_code) == FALSE
raise_for_status(status_code) == 400 <= status_code /\ status_code < 600

\* requests.get, raise_for_status and json() in a row: whether one of them
\* raises
request_raises(r) ==
    r.raised \/ raise_for_status(r.status_code) \/ ~r.decodable

\* the tags request: the body is read for status 200 only
tags_raises(r) ==
    r.raised \/ (r.status_code = 200 /\ (~r.decodable \/ r.json = JsonNull))

VARIABLES
    f_pc,        \* "idle", "subject", "episodes", "legacy", "tags", "returned", "interrupted"
    f_requests,  \* the requests made so far with what came back
    f_anime,     \* anime_data
    f_episodes,  \* episodes
    f_result     \* the pair returned

fetchVars == <<f_pc, f_requests, f_anime, f_episodes, f_result>>

NoResult == [anime_data |-> None, episodes |-> <<>>]

FetchIdle ==
    /\ f_pc = "idle"
    /\ f_requests = <<>>
    /\ f_anime = None
    /\ f_episodes = <<>>
    /\ f_result = NoResult

\* a call of fetch_bangumi_data begins (the state at line 83)
FetchEntry ==
    /\ f_pc' = "subject"
    /\ f_requests' = <<>>
    /\ f_anime' = None
    /\ f_episodes' = <<>>
    /\ f_result' = NoResult

FetchCallInit ==
    /\ f_pc = "subject"
    /\ f_requests = <<>>
    /\ f_anime = None
    /\ f_episodes = <<>>
    /\ f_result = NoResult

\* except Exception: return None, {}  (lines 123-125)
FetchFails ==
    /\ f_pc' = "returned"
    /\ f_result' = NoResult
    /\ UNCHANGED <<f_anime, f_episodes>>

\* return anime_data, episodes  (line 122)
FetchReturns(anime_data, episodes) ==
    /\ f_pc' = "returned"
    /\ f_anime' = anime_data
    /\ f_result' = [anime_data |-> anime_data, episodes |-> episodes]
    /\ UNCHANGED f_episodes

Requested(name, r) == Append(f_requests, [request |-> name, response |-> r])

\* the subject request (lines 87-90)
FetchSubjectFrom(responses) ==
    /\ f_pc = "subject"
    /\ \E r \in responses :
          /\ f_requests' = Requested("subject", r)
          /\ IF request_raises(r)
             THEN FetchFails
             ELSE /\ f_anime' = r.json
                  /\ f_pc' = "episodes"
                  /\ UNCHANGED <<f_episodes, f_result>>

\* the episodes request (lines 93-96) and, for a list that is not empty,
\* the loop over it (lines 105-111); json().get raises on a body that is
\* not an object
FetchEpisodesFrom(responses) ==
    /\ f_pc = "episodes"
    /\ \E r \in responses :
          /\ f_requests' = Requested("episodes", r)
          /\ IF request_raises(r) \/ r.json = JsonNull
             THEN FetchFails
             ELSE IF r.json.data = <<>>
             THEN /\ f_pc' = "legacy"
                  /\ UNCHANGED <<f_anime, f_episodes, f_result>>
             ELSE /\ f_episodes' = episodes_of(r.json.data)
                  /\ f_pc' = "tags"
                  /\ UNCHANGED <<f_anime, f_result>>

\* the legacy episodes request (lines 99-103) and the loop over its list
\* (lines 105-111); the loop raises on a body that cannot be iterated
FetchLegacyFrom(responses) ==
    /\ f_pc = "legacy"
    /\ \E r \in responses :
          /\ f_requests' = Requested("legacy", r)
          /\ IF request_raises(r) \/ r.json = JsonNull
             THEN FetchFails
             ELSE /\ f_episodes' = episodes_of(r.json.list)
                  /\ f_pc' = "tags"
                  /\ UNCHANGED <<f_anime, f_result>>

\* the tags request (lines 114-120) and the return (line 122): the body is
\* read for status 200, any other status gives no tags; storing the tags
\* raises when the subject's body was not an object
FetchTagsFrom(responses) ==
    /\ f_pc = "tags"
    /\ \E r \in responses :
          /\ f_requests' = Requested("tags", r)
          /\ IF tags_raises(r) \/ f_anime = JsonNull
             THEN FetchFails
             ELSE FetchReturns([f_anime EXCEPT !.tags = IF r.status_code = 200
                                                        THEN r.json.data ELSE <<>>],
                               f_episodes)

FetchSubject  == FetchSubjectFrom(SubjectResponses)
FetchEpisodes == FetchEpisodesFrom(EpisodesResponses)
FetchLegacy   == FetchLegacyFrom(LegacyResponses)
FetchTags     == FetchTagsFrom(TagsResponses)

\* a KeyboardInterrupt while a request is under way: it is no Exception,
\* the except clause does not catch it, the call is left by it
FetchInterrupt ==
    /\ f_pc \in {"subject", "episodes", "legacy", "tags"}
    /\ f_pc' = "interrupted"
    /\ UNCHANGED <<f_requests, f_anime, f_episodes, f_result>>

\* ------------------------------------------------------------------ main
\* main() as a sequence of steps, one per call of input(): the token prompt
\* before the session loop, then, inside "while True: try: ...", the prompts
\* of a directory pass.  The calls of fetch_bangumi_data and rename_files
\* are the two machines above, run to their end while main waits.
\*
\* The local variables of a pass are all assigned anew before a later pass
\* reads them, so they are cleared when a pass ends; bound tells whether
\* prefix has been assigned in this pass.  results and total_pages are read
\* at the choice prompt only and page inside the selection loop only: they
\* are cleared where they are read last.

MaxPage == 2   \* the search page is turned forward up to page MaxPage

VARIABLES
    m_pc,      \* the step main is at
    m,         \* the local variables of the pass
    m_input,   \* what the last call of input() of the pass returned
    m_exc,     \* the exception on its way to the except clauses of the loop
    m_caught   \* the exception the except clauses caught last

mainVars == <<m_pc, m, m_input, m_exc, m_caught>>

NoLocals ==
    [use_bangumi |-> FALSE, page |-> 1, results |-> 0, total_pages |-> 1,
     anime_data |-> None, episode_titles |-> <<>>,
     prefix |-> <<>>, bound |-> FALSE, subgroup |-> <<>>, add_titles |-> FALSE,
     season |-> 0, hdr_resolution |-> <<>>, start_offset |-> 0]

MainIdle ==
    /\ m_pc = "idle"
    /\ m = NoLocals
    /\ m_input = <<>>
    /\ m_exc = "none"
    /\ m_caught = "none"

MainInit ==
    /\ m_pc = "start"
    /\ m = NoLocals
    /\ m_input = <<>>
    /\ m_exc = "none"
    /\ m_caught = "none"

\* the steps that wait in input()
PromptSteps ==
    { "path", "use_bangumi", "query", "accept_id", "choice", "accept_sel",
      "prefix_fallback", "prefix_confirm", "prefix_custom", "prefix_manual",
      "subgroup", "add_titles", "season", "season_number", "hdr",
      "hdr_resolution", "offset", "start_offset", "confirm" }

\* str.isdigit()
isdigit(s) == s # <<>> /\ \A i \in DOMAIN s : IsDigit(s[i])

\* input(...).strip().lower() in ('', 'y', 'yes'), and in ('y', 'yes')
yes_by_default(answer) == is_affirmative(lower(strip(answer)))
yes_if_typed(answer) == lower(strip(answer)) \in { <<"y">>, <<"y","e","s">> }

\* if anime_data:  (the record fetch_bangumi_data returns carries its tags,
\* so it is true unless it is None)
found_always(anime_data) == TRUE
found(anime_data) == ~anime_data.none

\* anime_data.get('name_cn') or anime_data.get('name')
subject_name(anime_data) ==
    IF anime_data.name_cn # <<>> THEN anime_data.name_cn ELSE anime_data.name

\* except KeyboardInterrupt / except Exception  (lines 398-401)
catches_exception_only(exc) == exc = "Exception"
catches(exc) == exc \in {"KeyboardInterrupt", "Exception"}

\* what is typed at the prompts
PathInputs == { <<"e","x","i","t">>, <<" ","E","x","i","t"," ">>, <<"d">>, <<"x">> }
Directories == { <<"d">> }
Queries == { <<"n">>, <<"P">>, <<"4","2">>, <<"s","h","o","w">> }
Choices == { <<"1">>, <<"2">>, <<"N">>, <<"p">>, <<"x">> }
PrefixInputs == { <<>>, <<" ","M","y"," ">> }
SubgroupInputs == { <<>>, <<"V","C","B">> }
NumberInputs == { <<"2">>, <<"0">>, <<"x">> }
ResolutionInputs == { <<"1","0","8","0">>, <<"x">> }
YesNo == { <<>>, <<" ","Y","e","s"," ">>, <<"n">> }

\* os.listdir of the directory of the pass
MainListings ==
    { <<>>,
      << <<"di","1","hua"," ","a",".","H","D","R",".","m","p","4">>,
         <<"E","P","2",".","m","k","v">> >> }

\* what search_bangumi returns: the number of results and total_pages;
\* ([], 1) when the search failed
SearchOutcomes ==
    { [results |-> n, total_pages |-> t] : n \in 0..2, t \in 1..2 }

\* the API as the session sees it
MainSubjectResponses ==
    { TransportError,
      Response(200, TRUE, Subject(<<>>, <<>>)),
      Response(200, TRUE, Subject(<<"S","h","o","w">>, <<"S","h","o","u">>)) }
MainEpisodesResponses ==
    { Response(404, TRUE, JsonNull),
      Response(200, TRUE, [data |-> <<>>]),
      Response(200, TRUE, [data |-> << Ep(0, <<1>>, <<"B","e","g","i","n">>, <<>>) >>]) }
MainLegacyResponses ==
    { Response(200, FALSE, JsonNull), Response(200, TRUE, [list |-> <<>>]) }
MainTagsResponses ==
    { Response(404, FALSE, JsonNull), Response(200, TRUE, [data |-> <<>>]) }

FetchLeave ==
    /\ f_pc' = "idle"
    /\ f_requests' = <<>>
    /\ f_anime' = None
    /\ f_episodes' = <<>>
    /\ f_result' = NoResult

RenameLeave ==
    /\ rf_pc' = "idle"
    /\ rf_listing' = <<>>
    /\ rf_params' = BaseParams
    /\ rf_idx' = 1
    /\ rf_preview' = <<>>
    /\ rf_skipped' = <<>>
    /\ rf_shown' = <<>>
    /\ rf_answered' = FALSE
    /\ rf_confirm' = <<>>
    /\ rf_ridx' = 1
    /\ rf_renames' = <<>>
    /\ rf_result' = "none"

\* the pass is over: back to the head of "while True", the path prompt
EndPass(caught) ==
    /\ m_pc' = "path"
    /\ m' = NoLocals
    /\ m_input' = <<>>
    /\ m_exc' = "none"
    /\ m_caught' = caught
    /\ FetchLeave
    /\ RenameLeave

\* the next prompt, with the locals as the step leaves them
Goto(step, locals, typed) ==
    /\ m_pc' = step
    /\ m' = locals
    /\ m_input' = typed
    /\ UNCHANGED <<m_exc, m_caught>>

\* the banner, load_config and the token prompt (lines 260-273), before
\* the session loop
MainStart ==
    /\ m_pc = "start"
    /\ Goto("path", m, <<>>)
    /\ UNCHANGED <<fetchVars, renameVars>>

\* an exception before the session loop: nothing catches it
MainStartRaises ==
    /\ m_pc = "start"
    /\ m_pc' = "aborted"
    /\ UNCHANGED <<m, m_input, m_exc, m_caught, fetchVars, renameVars>>

\* the folder-path prompt (lines 278-283)
MainPath ==
    /\ m_pc = "path"
    /\ \E typed \in PathInputs :
          /\ m_pc' = IF lower(strip(typed)) = <<"e","x","i","t">> THEN "exited"
                     ELSE IF strip(typed) \notin Directories THEN "path"
                     ELSE "use_bangumi"
          /\ m_input' = typed
    /\ m_caught' = "none"
    /\ UNCHANGED <<m, m_exc, fetchVars, renameVars>>

\* use_bangumi, anime_data = None, episode_titles = {}, page = 1
\* (lines 286-291)
MainUseBangumi ==
    /\ m_pc = "use_bangumi"
    /\ \E typed \in YesNo :
          IF yes_by_default(typed)
          THEN Goto("query", [m EXCEPT !.use_bangumi = TRUE, !.page = 1], typed)
          ELSE Goto("prefix_manual", [m EXCEPT !.use_bangumi = FALSE], typed)
    /\ UNCHANGED <<fetchVars, renameVars>>

\* search_bangumi(...) and "if not results: continue" (lines 309-312)
Searched(page, outcome, typed) ==
    IF outcome.results = 0
    THEN Goto("query", [m EXCEPT !.page = page], typed)
    ELSE Goto("choice", [m EXCEPT !.page = page, !.results = outcome.results,
                                  !.total_pages = outcome.total_pages], typed)

\* the query prompt answered with n or p: the page is turned, then the
\* search (lines 293-298, 309)
MainQueryPage ==
    /\ m_pc = "query"
    /\ \E typed \in Queries, outcome \in SearchOutcomes :
          /\ lower(strip(typed)) \in { <<"n">>, <<"p">> }
          /\ lower(strip(typed)) = <<"n">> => m.page < MaxPage
          /\ Searched(IF lower(strip(typed)) = <<"n">> THEN m.page + 1
                      ELSE IF m.page - 1 > 1 THEN m.page - 1 ELSE 1,
                      outcome, typed)
    /\ UNCHANGED <<fetchVars, renameVars>>

\* the query prompt answered with digits: the subject of that id is
\* fetched (lines 299-300)
MainQueryId ==
    /\ m_pc = "query"
    /\ \E typed \in Queries :
          /\ lower(strip(typed)) \notin { <<"n">>, <<"p">> }
          /\ isdigit(strip(typed))
          /\ Goto("fetch_id", m, typed)
    /\ FetchEntry
    /\ UNCHANGED renameVars

\* the query prompt answered with a keyword: the search (line 309)
MainQueryKeyword ==
    /\ m_pc = "query"
    /\ \E typed \in Queries, outcome \in SearchOutcomes :
          /\ lower(strip(typed)) \notin { <<"n">>, <<"p">> }
          /\ ~isdigit(strip(typed))
          /\ Searched(m.page, outcome, typed)
    /\ UNCHANGED <<fetchVars, renameVars>>

\* fetch_bangumi_data has returned: "if anime_data:" shows the subject and
\* asks; else the loop goes on (lines 300-301, 306-307 and 318-319)
Fetched(accept_step) ==
    /\ f_pc = "returned"
    /\ Goto(IF found(f_result.anime_data) THEN accept_step ELSE "query",
            [m EXCEPT !.anime_data = f_result.anime_data,
                      !.episode_titles = f_result.episodes],
            m_input)
    /\ FetchLeave
    /\ UNCHANGED renameVars

MainFetchedId  == m_pc = "fetch_id"  /\ Fetched("accept_id")
MainFetchedSel == m_pc = "fetch_sel" /\ Fetched("accept_sel")

\* "if not anime_data:" after the loop (line 329)
after_loop(anime_data) ==
    IF anime_data.none THEN "prefix_fallback" ELSE "prefix_confirm"

\* the subject is shown and the user asked whether to use it: yes assigns
\* prefix and breaks, anything else goes on with the loop (lines 302-307
\* and 320-323)
Accept ==
    \E typed \in YesNo :
        IF yes_by_default(typed)
        THEN Goto(after_loop(m.anime_data),
                  [m EXCEPT !.prefix = subject_name(m.anime_data), !.bound = TRUE,
                            !.page = 1,
                            !.use_bangumi = IF m.anime_data.none THEN FALSE ELSE @],
                  typed)
        ELSE Goto("query", m, typed)

MainAcceptId ==
    /\ m_pc = "accept_id"
    /\ Accept
    /\ UNCHANGED <<fetchVars, renameVars>>

MainAcceptSel ==
    /\ m_pc = "accept_sel"
    /\ Accept
    /\ UNCHANGED <<fetchVars, renameVars>>

\* the choice prompt answered with the number of a result: that subject is
\* fetched (lines 314-318)
MainChoiceSelect ==
    /\ m_pc = "choice"
    /\ \E typed \in Choices :
          /\ isdigit(lower(strip(typed)))
          /\ 1 <= int(lower(strip(typed)))
          /\ int(lower(strip(typed))) <= m.results
          /\ Goto("fetch_sel", [m EXCEPT !.results = 0, !.total_pages = 1], typed)
    /\ FetchEntry
    /\ UNCHANGED renameVars

\* the choice prompt answered otherwise: n and p turn the page within
\* 1..total_pages, and the loop goes on (lines 314-316, 324-327)
MainChoiceOther ==
    /\ m_pc = "choice"
    /\ \E typed \in Choices :
          /\ ~(/\ isdigit(lower(strip(typed)))
               /\ 1 <= int(lower(strip(typed)))
               /\ int(lower(strip(typed))) <= m.results)
          /\ Goto("query",
                  [m EXCEPT !.page =
                      IF lower(strip(typed)) = <<"n">>
                      THEN (IF m.page + 1 < m.total_pages THEN m.page + 1
                            ELSE m.total_pages)
                      ELSE IF lower(strip(typed)) = <<"p">>
                      THEN (IF m.page - 1 > 1 THEN m.page - 1 ELSE 1)
                      ELSE m.page,
                            !.results = 0, !.total_pages = 1],
                  typed)
    /\ UNCHANGED <<fetchVars, renameVars>>

\* the prefix is kept or another is asked for (lines 334-337)
MainPrefixConfirm ==
    /\ m_pc = "prefix_confirm"
    /\ \E typed \in YesNo :
          Goto(IF yes_by_default(typed) THEN "subgroup" ELSE "prefix_custom", m, typed)
    /\ UNCHANGED <<fetchVars, renameVars>>

\* prefix = input(...).strip()  (lines 332, 337 and 339)
MainPrefixInput ==
    /\ m_pc \in {"prefix_fallback", "prefix_custom", "prefix_manual"}
    /\ \E typed \in PrefixInputs :
          Goto("subgroup", [m EXCEPT !.prefix = strip(typed), !.bound = TRUE], typed)
    /\ UNCHANGED <<fetchVars, renameVars>>

\* subgroup = input(...).strip()  (line 342)
MainSubgroup ==
    /\ m_pc = "subgroup"
    /\ \E typed \in SubgroupInputs :
          Goto("add_titles", [m EXCEPT !.subgroup = strip(typed)], typed)
    /\ UNCHANGED <<fetchVars, renameVars>>

\* add_titles  (line 345)
MainAddTitles ==
    /\ m_pc = "add_titles"
    /\ \E typed \in YesNo :
          Goto("season", [m EXCEPT !.add_titles = yes_by_default(typed)], typed)
    /\ UNCHANGED <<fetchVars, renameVars>>

\* season = None, and whether to ask for it  (lines 348-349); None is 0
\* here, which rename_files treats alike ("if season")
MainSeason ==
    /\ m_pc = "season"
    /\ \E typed \in YesNo :
          Goto(IF yes_by_default(typed) THEN "season_number" ELSE "hdr",
               [m EXCEPT !.season = 0], typed)
    /\ UNCHANGED <<fetchVars, renameVars>>

\* season = int(input(...).strip()), asked again on ValueError
\* (lines 350-355)
MainSeasonNumber ==
    /\ m_pc = "season_number"
    /\ \E typed \in NumberInputs :
          IF isdigit(strip(typed))
          THEN Goto("hdr", [m EXCEPT !.season = int(strip(typed))], typed)
          ELSE Goto("season_number", m, typed)
    /\ UNCHANGED <<fetchVars, renameVars>>

\* hdr_resolution = None, and whether to ask for it  (lines 358-359)
MainHdr ==
    /\ m_pc = "hdr"
    /\ \E typed \in YesNo \cup { <<"y">> } :
          Goto(IF yes_if_typed(typed) THEN "hdr_resolution" ELSE "offset",
               [m EXCEPT !.hdr_resolution = <<>>], typed)
    /\ UNCHANGED <<fetchVars, renameVars>>

\* hdr_resolution = input(...).strip(), asked again unless isdigit()
\* (lines 360-368)
MainHdrResolution ==
    /\ m_pc = "hdr_resolution"
    /\ \E typed \in ResolutionInputs :
          IF isdigit(strip(typed))
          THEN Goto("offset", [m EXCEPT !.hdr_resolution = strip(typed)], typed)
          ELSE Goto("hdr_resolution", [m EXCEPT !.hdr_resolution = strip(typed)], typed)
    /\ UNCHANGED <<fetchVars, renameVars>>

\* start_offset = 0, and whether to ask for it  (lines 371-372)
MainOffset ==
    /\ m_pc = "offset"
    /\ \E typed \in YesNo \cup { <<"y">> } :
          Goto(IF yes_if_typed(typed) THEN "start_offset" ELSE "confirm",
               [m EXCEPT !.start_offset = 0], typed)
    /\ UNCHANGED <<fetchVars, renameVars>>

\* start_offset = int(input(...).strip()), asked again on ValueError and
\* for a number below 1  (lines 373-381)
MainStartOffset ==
    /\ m_pc = "start_offset"
    /\ \E typed \in NumberInputs :
          IF isdigit(strip(typed))
          THEN IF int(strip(typed)) < 1
               THEN Goto("start_offset", [m EXCEPT !.start_offset = int(strip(typed))],
                         typed)
               ELSE Goto("confirm", [m EXCEPT !.start_offset = int(strip(typed))], typed)
          ELSE Goto("start_offset", m, typed)
    /\ UNCHANGED <<fetchVars, renameVars>>

\* the last confirmation: yes calls rename_files (lines 384-389)
MainConfirmYes ==
    /\ m_pc = "confirm"
    /\ \E typed \in YesNo :
          /\ yes_by_default(typed)
          /\ Goto("renaming", m, typed)
    /\ \E listing \in MainListings :
          RenameEntry(listing,
                      [subgroup |-> m.subgroup, prefix |-> m.prefix,
                       season |-> m.season, episode_titles |-> m.episode_titles,
                       use_bangumi |-> m.use_bangumi, start_offset |-> m.start_offset,
                       add_titles |-> m.add_titles, hdr_resolution |-> m.hdr_resolution])
    /\ UNCHANGED fetchVars

\* the last confirmation: anything else cancels, the pass is over
\* (lines 395-396)
MainConfirmNo ==
    /\ m_pc = "confirm"
    /\ \E typed \in YesNo : ~yes_by_default(typed)
    /\ EndPass("none")

\* rename_files has returned: the outcome is printed, the pass is over
\* (lines 391-394)
MainRenamed ==
    /\ m_pc = "renaming"
    /\ rf_pc = "returned"
    /\ EndPass("none")

\* input() raises: KeyboardInterrupt, or EOFError, which is an Exception
MainPromptRaises ==
    /\ m_pc \in PromptSteps
    /\ \E exc \in {"KeyboardInterrupt", "Exception"} : m_exc' = exc
    /\ m_pc' = "raised"
    /\ UNCHANGED <<m, m_input, m_caught, fetchVars, renameVars>>

\* fetch_bangumi_data was left by a KeyboardInterrupt
MainFetchRaises ==
    /\ m_pc \in {"fetch_id", "fetch_sel"}
    /\ f_pc = "interrupted"
    /\ m_exc' = "KeyboardInterrupt"
    /\ m_pc' = "raised"
    /\ UNCHANGED <<m, m_input, m_caught, fetchVars, renameVars>>

\* rename_files was left by an exception
MainRenameRaises ==
    /\ m_pc = "renaming"
    /\ rf_pc \in {"interrupted", "failed"}
    /\ m_exc' = IF rf_pc = "interrupted" THEN "KeyboardInterrupt" ELSE "Exception"
    /\ m_pc' = "raised"
    /\ UNCHANGED <<m, m_input, m_caught, fetchVars, renameVars>>

\* the except clauses of the loop (lines 398-401): the exception is
\* printed and the loop goes on; one they do not catch leaves main
MainHandle ==
    /\ m_pc = "raised"
    /\ IF catches(m_exc)
       THEN EndPass(m_exc)
       ELSE /\ m_pc' = "crashed"
            /\ UNCHANGED <<m, m_input, m_exc, m_caught, fetchVars, renameVars>>

\* ------------------------------------------------------ specifications
PlanIdle ==
    /\ pl_pc = "idle"
    /\ pl_shape = NoShape
    /\ pl_params = BaseParams
    /\ pl_entry = NoEntry
    /\ pl_again = NoEntry

vars == <<planVars, renameVars, fetchVars, mainVars>>

\* the planner applied to one name, and to the name it proposed
PlanSpecInit == PlanInit /\ RenameIdle /\ FetchIdle /\ MainIdle
PlanNext ==
    \/ Plan /\ UNCHANGED <<renameVars, fetchVars, mainVars>>
    \/ Replan /\ UNCHANGED <<renameVars, fetchVars, mainVars>>
SpecPlan == PlanSpecInit /\ [][PlanNext]_vars

\* one call of rename_files
RenameSpecInit == RenameCallInit /\ PlanIdle /\ FetchIdle /\ MainIdle
RenameNext ==
    \/ RfScan /\ UNCHANGED <<planVars, fetchVars, mainVars>>
    \/ RfEmptyPlan /\ UNCHANGED <<planVars, fetchVars, mainVars>>
    \/ RfShowPreview /\ UNCHANGED <<planVars, fetchVars, mainVars>>
    \/ RfAnswer /\ UNCHANGED <<planVars, fetchVars, mainVars>>
    \/ RfRenamed /\ UNCHANGED <<planVars, fetchVars, mainVars>>
    \/ RfRenameFailed /\ UNCHANGED <<planVars, fetchVars, mainVars>>
    \/ RfInterrupt /\ UNCHANGED <<planVars, fetchVars, mainVars>>
    \/ RfError /\ UNCHANGED <<planVars, fetchVars, mainVars>>
SpecRename == RenameSpecInit /\ [][RenameNext]_vars

\* one call of fetch_bangumi_data
FetchSpecInit == FetchCallInit /\ PlanIdle /\ RenameIdle /\ MainIdle
FetchNext ==
    \/ FetchSubject /\ UNCHANGED <<planVars, renameVars, mainVars>>
    \/ FetchEpisodes /\ UNCHANGED <<planVars, renameVars, mainVars>>
    \/ FetchLegacy /\ UNCHANGED <<planVars, renameVars, mainVars>>
    \/ FetchTags /\ UNCHANGED <<planVars, renameVars, mainVars>>
    \/ FetchInterrupt /\ UNCHANGED <<planVars, renameVars, mainVars>>
SpecFetch == FetchSpecInit /\ [][FetchNext]_vars

\* a session of main: the prompts, and the calls it waits for
MainSpecInit == MainInit /\ PlanIdle /\ RenameIdle /\ FetchIdle
MainNext ==
    \/ MainStart /\ UNCHANGED planVars
    \/ MainStartRaises /\ UNCHANGED planVars
    \/ MainPath /\ UNCHANGED planVars
    \/ MainUseBangumi /\ UNCHANGED planVars
    \/ MainQueryPage /\ UNCHANGED planVars
    \/ MainQueryId /\ UNCHANGED planVars
    \/ MainQueryKeyword /\ UNCHANGED planVars
    \/ MainFetchedId /\ UNCHANGED planVars
    \/ MainFetchedSel /\ UNCHANGED planVars
    \/ MainAcceptId /\ UNCHANGED planVars
    \/ MainAcceptSel /\ UNCHANGED planVars
    \/ MainChoiceSelect /\ UNCHANGED planVars
    \/ MainChoiceOther /\ UNCHANGED planVars
    \/ MainPrefixConfirm /\ UNCHANGED planVars
    \/ MainPrefixInput /\ UNCHANGED planVars
    \/ MainSubgroup /\ UNCHANGED planVars
    \/ MainAddTitles /\ UNCHANGED planVars
    \/ MainSeason /\ UNCHANGED planVars
    \/ MainSeasonNumber /\ UNCHANGED planVars
    \/ MainHdr /\ UNCHANGED planVars
    \/ MainHdrResolution /\ UNCHANGED planVars
    \/ MainOffset /\ UNCHANGED planVars
    \/ MainStartOffset /\ UNCHANGED planVars
    \/ MainConfirmYes /\ UNCHANGED planVars
    \/ MainConfirmNo /\ UNCHANGED planVars
    \/ MainRenamed /\ UNCHANGED planVars
    \/ MainPromptRaises /\ UNCHANGED planVars
    \/ MainFetchRaises /\ UNCHANGED planVars
    \/ MainRenameRaises /\ UNCHANGED planVars
    \/ MainHandle /\ UNCHANGED planVars
    \/ FetchSubjectFrom(MainSubjectResponses) /\ UNCHANGED <<planVars, renameVars, mainVars>>
    \/ FetchEpisodesFrom(MainEpisodesResponses) /\ UNCHANGED <<planVars, renameVars, mainVars>>
    \/ FetchLegacyFrom(MainLegacyResponses) /\ UNCHANGED <<planVars, renameVars, mainVars>>
    \/ FetchTagsFrom(MainTagsResponses) /\ UNCHANGED <<planVars, renameVars, mainVars>>
    \/ FetchInterrupt /\ UNCHANGED <<planVars, renameVars, mainVars>>
    \/ RfScan /\ UNCHANGED <<planVars, fetchVars, mainVars>>
    \/ RfEmptyPlan /\ UNCHANGED <<planVars, fetchVars, mainVars>>
    \/ RfShowPreview /\ UNCHANGED <<planVars, fetchVars, mainVars>>
    \/ RfAnswer /\ UNCHANGED <<planVars, fetchVars, mainVars>>
    \/ RfRenamed /\ UNCHANGED <<planVars, fetchVars, mainVars>>
    \/ RfRenameFailed /\ UNCHANGED <<planVars, fetchVars, mainVars>>
    \/ RfInterrupt /\ UNCHANGED <<planVars, fetchVars, mainVars>>
    \/ RfError /\ UNCHANGED <<planVars, fetchVars, mainVars>>
SpecMain == MainSpecInit /\ [][MainNext]_vars
\* ------------------------------------------------- properties: the plan

EndsWith(s, suf) ==
    Len(suf) <= Len(s) /\ SubSeq(s, Len(s) - Len(suf) + 1, Len(s)) = suf

\* a number as the proposed names are expected to show it: decimal, at
\* least two digits
TwoDigits(x) ==
    IF x < 10 THEN <<"0", DigitChars[x + 1]>>
    ELSE IF x < 100 THEN <<DigitChars[(x \div 10) + 1], DigitChars[(x % 10) + 1]>>
    ELSE <<DigitChars[(x \div 100) + 1], DigitChars[((x \div 10) % 10) + 1],
           DigitChars[(x % 10) + 1]>>

\* the text carries an episode marker: di<digits>hua or EP<digits>, in
\* either case of the letters
HasMarker(s) ==
    LET L == lower(s)
    IN  \E i \in DOMAIN L :
            \/ /\ L[i] = "di"
               /\ DigitRun(L, i + 1) >= 1
               /\ i + 1 + DigitRun(L, i + 1) <= Len(L)
               /\ L[i + 1 + DigitRun(L, i + 1)] = "hua"
            \/ StartsWith(L, i, <<"e", "p">>) /\ DigitRun(L, i + 2) >= 1

\* the designator and what follows it in a proposed name, for an episode
\* number shown and a display title
ExpectedTail(season, shown, title, entry) ==
    (IF season # 0 THEN <<"S">> \o TwoDigits(season) ELSE <<>>)
    \o <<"E">> \o TwoDigits(shown)
    \o (IF strip(title) # <<>> THEN Sp \o strip(title) ELSE <<>>)
    \o entry.quality_suffix \o Dot \o entry.ext

\* C4 (as stated): no proposed name matches the filename pattern again.
C4_NoProposedNameMatchesAgain ==
    (pl_pc = "replanned") => ~pl_again.matched

\* C4 (amended): a proposed name does not match the pattern again unless
\* the subgroup tag, the prefix or the display title put into it carries an
\* episode marker itself.
C4_NoRematchWithoutMarkerInParts ==
    ( /\ pl_pc = "replanned"
      /\ ~HasMarker(pl_params.subgroup)
      /\ ~HasMarker(pl_params.prefix)
      /\ ~HasMarker(pl_entry.final_title) )
    => ~pl_again.matched

C4_Witness ==
    /\ pl_pc = "replanned"
    /\ pl_shape.kind = "titled"
    /\ pl_params.use_bangumi /\ pl_params.add_titles
    /\ pl_entry.original_num \in DOMAIN pl_params.episode_titles
    /\ pl_entry.final_title = <<"R","e","u","n","i","o","n">>
    /\ ~HasMarker(pl_params.prefix) /\ pl_params.prefix # <<>>
    /\ ~pl_again.matched

\* C5: for a name made of marker, codec, HDR/SDR token, resolution and
\* quality words, the quality suffix carries "HDR" exactly when the name has
\* the literal HDR token or a true-colour tag among its quality words.
C5_HdrMarkerIffHdrOrTrueColor ==
    (pl_pc # "start" /\ pl_shape.kind = "quality" /\ pl_entry.matched)
    => ( Contains(pl_entry.quality_suffix, <<"H","D","R">>)
         <=> ( \/ pl_shape.hdr = <<".","H","D","R">>
               \/ \E i \in DOMAIN pl_shape.extras : pl_shape.extras[i] = TrueColor ) )

\* C6: a name of the shape "di<N>hua <title>.<ext>" (or "di<N>hua.<ext>")
\* matches with exactly N, the title (or the empty title) and ext, and with
\* codec, HDR flag, resolution and quality tags unset.
C6_TitledShapeExtractsExactly ==
    (pl_pc # "start" /\ pl_shape.kind \in {"titled", "untitled"})
    => /\ pl_entry.matched
       /\ pl_entry.original_num = pl_shape.n
       /\ pl_entry.original_title = pl_shape.title
       /\ pl_entry.ext = lower(pl_shape.ext)
       /\ pl_entry.codec = <<>>
       /\ pl_entry.hdr_flag = <<>>
       /\ pl_entry.resolution = <<>>
       /\ pl_entry.extra_flags = <<>>

\* C7: the designator of a proposed name shows n + k - 1 for an offset
\* k > 0 and n for k = 0, in at least two digits, n being the number
\* matched; with episode titles enabled the title in the name is the map's
\* entry for n itself, or the embedded title when the map has none.
C7_OffsetShiftsDesignatorOnly ==
    (pl_pc # "start" /\ pl_entry.matched)
    => LET n == pl_entry.original_num
           k == pl_params.start_offset
           shown == IF k > 0 THEN n + k - 1 ELSE n
           looked == IF n \in DOMAIN pl_params.episode_titles
                     THEN pl_params.episode_titles[n]
                     ELSE pl_entry.original_title
       IN  /\ EndsWith(pl_entry.new_name,
                       ExpectedTail(pl_params.season, shown, pl_entry.final_title, pl_entry))
           /\ (pl_params.add_titles /\ pl_params.use_bangumi)
              => EndsWith(pl_entry.new_name,
                          ExpectedTail(pl_params.season, shown, looked, pl_entry))

C7_Witness ==
    /\ pl_pc = "planned" /\ pl_entry.matched
    /\ pl_params.start_offset = 2
    /\ pl_entry.original_num = 1
    /\ pl_params.add_titles /\ pl_params.use_bangumi
    /\ {1, 2} \subseteq DOMAIN pl_params.episode_titles
    /\ pl_params.episode_titles[1] # pl_params.episode_titles[2]
    /\ EndsWith(pl_entry.new_name,
                <<"S","0","1","E","0","2"," ","B","e","g","i","n",".","m","p","4">>)


\* ----------------------------------------- properties: rename_files

\* the answers that confirm, as rename_files compares them: the input
\* stripped and lower-cased
ConfirmingAnswers == { <<>>, <<"y">>, <<"y","e","s">> }

\* C1: os.rename is called only after the whole plan has been printed and
\* the confirmation prompt answered with '', 'y' or 'yes'; with an empty
\* plan or any other answer no rename is made and the call returns False.
C1_RenameOnlyAfterPreviewAndYes ==
    /\ rf_renames # <<>>
       => /\ rf_idx > Len(rf_listing)
          /\ rf_preview # <<>>
          /\ rf_shown = rf_preview
          /\ rf_answered
          /\ rf_confirm \in ConfirmingAnswers
    /\ ( /\ rf_pc = "returned"
         /\ \/ rf_preview = <<>>
            \/ rf_answered /\ rf_confirm \notin ConfirmingAnswers )
       => rf_renames = <<>> /\ rf_result = "False"

C1_Witness ==
    /\ rf_pc = "rename"
    /\ Len(rf_preview) = 2
    /\ rf_shown = rf_preview
    /\ rf_confirm = <<"y","e","s">>
    /\ Len(rf_renames) = 1

\* C2: the renames made are the plan's entries in plan order, each once;
\* while the loop runs it has attempted every entry before the one it is
\* at, and the call that returns True has attempted them all, whichever of
\* them failed.
C2_EveryEntryAttemptedOnceInOrder ==
    /\ Len(rf_renames) <= Len(rf_preview)
    /\ \A i \in DOMAIN rf_renames :
          /\ rf_renames[i].old = rf_preview[i][1]
          /\ rf_renames[i].new = rf_preview[i][2]
    /\ rf_pc = "rename" => Len(rf_renames) = rf_ridx - 1
    /\ (rf_pc = "returned" /\ rf_result = "True")
       => Len(rf_renames) = Len(rf_preview)

C2_Witness ==
    /\ rf_pc = "returned"
    /\ rf_result = "True"
    /\ Len(rf_renames) = 2
    /\ ~rf_renames[1].ok
    /\ rf_renames[2].ok

\* whether the pattern matches a directory entry
Matches(filename) == pattern_match(clean_name(filename)).ok
NotMatches(filename) == ~Matches(filename)
Originals(preview) == [i \in DOMAIN preview |-> preview[i][1]]

\* C3: of the entries scanned so far, those that do not match are the
\* skipped ones and those that match are the original names of the plan,
\* both in the order of the listing; so no entry is in both and the plan's
\* length and the number skipped add up to the number of entries scanned.
C3_ScanPartitionsListing ==
    rf_pc # "idle"
    => LET scanned == SubSeq(rf_listing, 1, rf_idx - 1)
       IN  /\ Originals(rf_preview) = SelectSeq(scanned, Matches)
           /\ rf_skipped = SelectSeq(scanned, NotMatches)
           /\ Len(rf_preview) + Len(rf_skipped) = rf_idx - 1
           /\ \A i \in DOMAIN rf_preview : \A j \in DOMAIN rf_skipped :
                 rf_preview[i][1] # rf_skipped[j]

C3_Witness ==
    /\ rf_idx > Len(rf_listing)
    /\ Len(rf_listing) = 2
    /\ Len(rf_skipped) = 1
    /\ Len(rf_preview) = 1
    /\ rf_preview[1][1] = <<"bom"," ","di","2","hua",".","M","P","4">>

\* ------------------------------------ properties: fetch_bangumi_data

\* a request failed, as the claim counts failures: a transport exception,
\* a status that is not 2xx, a body that cannot be decoded
FailedAsStated(e) ==
    \/ e.response.raised
    \/ e.response.status_code < 200
    \/ e.response.status_code > 299
    \/ ~e.response.decodable

\* a request failed, as the function takes it: a transport exception; a
\* 4xx or 5xx status of the subject, episodes or legacy request; a body
\* that is read (for the tags request: with status 200 only) and cannot be
\* decoded
FailedAsHandled(e) ==
    \/ e.response.raised
    \/ /\ e.request # "tags"
       /\ e.response.status_code >= 400
       /\ e.response.status_code <= 599
    \/ /\ ~e.response.decodable
       /\ IF e.request = "tags" THEN e.response.status_code = 200
          ELSE e.response.status_code < 400

SelectionSteps == {"query", "fetch_id", "accept_id", "choice", "fetch_sel", "accept_sel"}
\* the steps of the session loop
SessionSteps == PromptSteps \cup {"fetch_id", "fetch_sel", "renaming", "raised"}

\* C9: in the session loop no exception leaves main; an exception raised
\* in a pass, in main or in a call it waits for, is caught and the next
\* step is the folder-path prompt; the loop is left only from the
\* folder-path prompt on the input 'exit', and that step renames nothing.
C9_ErrorsReturnToPathPrompt ==
    /\ [](m_pc # "crashed")
    /\ [][ /\ m_pc = "raised" => (m_pc' = "path" /\ m_caught' = m_exc)
           /\ (rf_pc \in {"interrupted", "failed"} \/ f_pc = "interrupted")
              => m_pc' \in {"raised", "path"}
           /\ (m_pc \in SessionSteps /\ m_pc' \notin SessionSteps)
              => /\ m_pc = "path"
                 /\ m_pc' = "exited"
                 /\ lower(strip(m_input')) = <<"e","x","i","t">>
                 /\ rf_pc = "idle"
                 /\ UNCHANGED renameVars ]_vars

C9_Witness ==
    /\ m_pc = "raised"
    /\ m_exc = "KeyboardInterrupt"
    /\ rf_pc = "interrupted"
    /\ Len(rf_renames) = 1

\* C10: the code after the subject-selection loop is reached only with a
\* fetched record that is not None and with prefix assigned from it, by
\* accepting the subject at one of the two prompts; a fetch that returned
\* None and a subject that was not accepted lead to the query prompt.
C10_LoopLeftOnlyWithAcceptedSubject ==
    /\ [](m_pc # "prefix_fallback")
    /\ [](m_pc = "prefix_confirm"
          => /\ ~m.anime_data.none
             /\ m.use_bangumi
             /\ m.bound
             /\ m.prefix = subject_name(m.anime_data))
    /\ [][ /\ (m_pc \in SelectionSteps /\ m_pc' \notin SelectionSteps \cup {"raised"})
              => /\ m_pc \in {"accept_id", "accept_sel"}
                 /\ m_pc' = "prefix_confirm"
                 /\ lower(strip(m_input')) \in { <<>>, <<"y">>, <<"y","e","s">> }
                 /\ ~m.anime_data.none
           /\ (m_pc \in {"fetch_id", "fetch_sel"} /\ f_pc = "returned"
               /\ f_result.anime_data.none)
              => m_pc' = "query"
           /\ (m_pc \in {"accept_id", "accept_sel"} /\ m_pc' # "raised"
               /\ lower(strip(m_input')) \notin { <<>>, <<"y">>, <<"y","e","s">> })
              => m_pc' = "query" ]_vars

C10_Witness ==
    /\ m_pc = "prefix_confirm"
    /\ m_input = <<" ","Y","e","s"," ">>
    /\ m.prefix = <<"S","h","o","w">>
    /\ m.episode_titles # <<>>
=============================================================================
